---- MODULE Spec2Model ----
(***************************************************************************)
(* The JSON-RPC web-socket gateway of src/main/api/ws.ts: connection       *)
(* handlers sharing the subscription table `subs` and the per-origin idle   *)
(* timer table `connectionMonitors`, the request executor (`provider`) as a *)
(* black box that answers forwarded requests and pushes subscription data.  *)
(*                                                                         *)
(* One action is one run-to-completion segment of the JavaScript event      *)
(* loop: a handler runs from the event that starts it to its next `await`,  *)
(* or to its end.                                                           *)
(***************************************************************************)
EXTENDS Integers, Sequences, FiniteSets, Bags, TLC

\* Largest number of message handlers suspended at an await or waiting for
\* the executor's callback at the same time.
MaxInflight == 2

\* ------------------------------------------------------------------ values

Conns == {"c1", "c2"}

\* Strings whose characters matter (chain ids, subscription ids) are
\* sequences of one-character strings.
NoStr == << >>
Chain0x1 == <<"0", "x", "1">>
Chain0xa == <<"0", "x", "a">>
ChainDec1 == <<"1">>
Sub1 == <<"0", "x", "a", "b">>
Sub2 == <<"0", "x", "c", "d">>
SubIds == {Sub1, Sub2}

\* JSON values carried in `result`: one shape for all of them.
Str(s) == [t |-> "str", s |-> s, n |-> 0]
Num(n) == [t |-> "num", s |-> NoStr, n |-> n]
Bool(b) == [t |-> "bool", s |-> NoStr, n |-> IF b THEN 1 ELSE 0]
NaN == [t |-> "nan", s |-> NoStr, n |-> 0]
Undefined == [t |-> "undefined", s |-> NoStr, n |-> 0]

\* JavaScript truthiness, as used by `response.result` and `payload.chainId ||`.
Truthy(v) ==
  CASE v.t = "str" -> v.s # NoStr
    [] v.t = "num" -> v.n # 0
    [] v.t = "bool" -> v.n = 1
    [] OTHER -> FALSE

HexDigits ==
  <<"0", "1", "2", "3", "4", "5", "6", "7", "8", "9", "a", "b", "c", "d", "e", "f">>

HexUpper ==
  <<"0", "1", "2", "3", "4", "5", "6", "7", "8", "9", "A", "B", "C", "D", "E", "F">>

IsHexDigit(ch) == \E i \in 1..Len(HexDigits) : HexDigits[i] = ch \/ HexUpper[i] = ch

DigitValue(ch) ==
  (CHOOSE i \in 1..Len(HexDigits) : HexDigits[i] = ch \/ HexUpper[i] = ch) - 1

\* isHexString with the 0x prefix test forgotten.
isHexStringNoPrefix(v) ==
  /\ Len(v) >= 1
  /\ \A i \in 1..Len(v) : IsHexDigit(v[i])

\* isHexString of @ethereumjs/util without a length: /^0x[0-9A-Fa-f]*$/.
isHexString(v) ==
  /\ Len(v) >= 2
  /\ v[1] = "0"
  /\ v[2] = "x"
  /\ \A i \in 3..Len(v) : IsHexDigit(v[i])

RECURSIVE ParseDigits(_, _, _, _)
ParseDigits(s, i, acc, seen) ==
  IF i > Len(s) \/ ~IsHexDigit(s[i])
    THEN IF seen THEN Num(acc) ELSE NaN
    ELSE ParseDigits(s, i + 1, acc * 16 + DigitValue(s[i]), TRUE)

\* parseInt(s, 10): the longest run of decimal digits.
RECURSIVE ParseDecimal(_, _, _, _)
ParseDecimal(s, i, acc, seen) ==
  IF i > Len(s) \/ ~IsHexDigit(s[i]) \/ DigitValue(s[i]) > 9
    THEN IF seen THEN Num(acc) ELSE NaN
    ELSE ParseDecimal(s, i + 1, acc * 10 + DigitValue(s[i]), TRUE)

parseInt10(s) == ParseDecimal(s, 1, 0, FALSE)

\* parseInt(s, 16): an optional 0x prefix, then the longest run of hex digits.
parseInt16(s) ==
  IF Len(s) >= 2 /\ s[1] = "0" /\ s[2] = "x"
    THEN ParseDigits(s, 3, 0, FALSE)
    ELSE ParseDigits(s, 1, 0, FALSE)

\* ------------------------------------------------------- collaborators

\* A raw origin string: its protocol prefix and the rest.
NoOrigin == [scheme |-> "", host |-> ""]
WebOrigin == [scheme |-> "http://", host |-> "dapp.one"]
SentinelOrigin == [scheme |-> "", host |-> "frame-extension"]
ExtOrigin == [scheme |-> "chrome-extension://", host |-> "abcdef"]

NoExt == ""

\* What a connection declares when it is accepted: the origin header and the
\* extension descriptor parseFrameExtension finds in the request (its id).
AllHandshakes(c) ==
  IF c = "c1"
    THEN { [origin |-> WebOrigin, frameExtension |-> NoExt],
           [origin |-> SentinelOrigin, frameExtension |-> NoExt] }
    ELSE { [origin |-> ExtOrigin, frameExtension |-> "extA"] }

\* The routing scenarios: a web page and the browser extension.
Handshakes(c) == {h \in AllHandshakes(c) : h.origin # SentinelOrigin}

\* parseOrigin of ./origins: 'Unknown' without an origin, else the origin
\* with its protocol prefix removed.
parseOrigin(raw) == IF raw = NoOrigin THEN "Unknown" ELSE raw.host

\* The origin id updateOrigin attaches as payload._origin (a uuid derived
\* from the origin).
OriginId(origin) ==
  CASE origin = "dapp.one" -> "uuid5:dapp.one"
    [] origin = "frame-extension" -> "uuid5:frame-extension"
    [] origin = "abcdef" -> "uuid5:abcdef"
    [] OTHER -> "uuid5:Unknown"

\* updateOrigin of ./origins: the payload with the origin id attached and
\* the chain id resolved (the request's own, else the origin's current
\* chain), and that chain id.
updateOrigin(rawPayload, origin, connectionMessage) ==
  LET chainId == IF rawPayload.chainId # NoStr THEN rawPayload.chainId ELSE Chain0x1
  IN [ payload |-> [rawPayload EXCEPT !.chainId = chainId, !.originId = OriginId(origin)],
       chainId |-> chainId ]

Methods ==
  {"eth_subscribe", "eth_unsubscribe", "eth_chainId", "net_version", "frame_summon",
   "eth_accounts"}

\* Two lists ./protectedMethods may export: account access alone, and one that
\* also protects a subscription call and a call the extension answers itself.
AccountMethods == {"eth_accounts"}
GuardedMethods == {"eth_accounts", "eth_subscribe", "net_version"}

\* ---------------------------------------------------------------- state

VARIABLES
  sockets,             \* per connection: readyState, origin, frameExtension
  subs,                \* subscription id -> [socket, originId]
  connectionMonitors,  \* origin id -> timer handle
  timers,              \* the timeouts that are pending: [handle, originId]
  inflight,            \* the bag of message handlers suspended at an await
  protectedMethods,    \* the static list of protected methods
  ev                   \* what the last event-loop turn did

vars == <<sockets, subs, connectionMonitors, timers, inflight, protectedMethods, ev>>

\* Inbound JSON-RPC requests as validPayload returns them.
ParamsOf(method) ==
  IF method = "eth_unsubscribe" THEN {<<Sub1>>, <<Sub1, Sub2>>} ELSE {<< >>}

PayloadsOf(ids, methods, chainIds, frameOrigins, flags) ==
  UNION { [ id : ids, method : {m}, params : ParamsOf(m),
            chainId : chainIds,
            frameOrigin : frameOrigins,
            extensionConnecting : flags,
            originId : {""} ] : m \in methods }

\* The requests of the routing scenarios: subscribe and unsubscribe calls, on
\* the extension's connection with and without a target origin.
RouterPayloads(c) ==
  PayloadsOf({2}, {"eth_subscribe", "eth_unsubscribe"}, {NoStr},
             IF c = "c1" THEN {NoOrigin} ELSE {NoOrigin, WebOrigin}, {FALSE})

\* The requests of the single-message scenarios: every field varies.
HandlerPayloads ==
  PayloadsOf({1, 2}, Methods, {NoStr, Chain0xa, ChainDec1}, {NoOrigin, WebOrigin}, BOOLEAN)

NoPayload ==
  [ id |-> 0, method |-> "", params |-> << >>, chainId |-> NoStr,
    frameOrigin |-> NoOrigin, extensionConnecting |-> FALSE, originId |-> "" ]

\* A frame on the wire, and the executor's response (passed on verbatim).
NoError == [code |-> 0, text |-> "", about |-> "", chain |-> NoStr]

Result(id, v) == [kind |-> "result", id |-> id, result |-> v, error |-> NoError, sub |-> NoStr]
Error(id, e) == [kind |-> "error", id |-> id, result |-> Undefined, error |-> e, sub |-> NoStr]
PushFrame(s) == [kind |-> "push", id |-> 0, result |-> Undefined, error |-> NoError, sub |-> s]

NoFrame == [kind |-> "", id |-> 0, result |-> Undefined, error |-> NoError, sub |-> NoStr]

\* What one turn of the event loop did: the event, its input, and the calls
\* the handler made on its collaborators.
NoEv ==
  [ op |-> "init", conn |-> "", payload |-> NoPayload, ret |-> FALSE, response |-> NoFrame,
    origin |-> "", chainId |-> NoStr,
    res |-> << >>, sends |-> {}, calls |-> << >>,
    extended |-> << >>, asked |-> FALSE, accounts |-> << >>, tray |-> FALSE,
    ended |-> << >>, cancelled |-> {}, added |-> {}, removed |-> {} ]

\* The entries of a subscription table.
Entries(table) ==
  {[sub |-> s, socket |-> table[s].socket, originId |-> table[s].originId] : s \in DOMAIN table}

\* ------------------------------------------------------------ the handler

\* res without the readyState test.
resUnguarded(socket, payload) ==
  {[conn |-> socket, frame |-> payload, open |-> sockets[socket].readyState = "OPEN"]}

\* res writing to whichever sockets are open.
resBroadcast(socket, payload) ==
  {[conn |-> c, frame |-> payload, open |-> TRUE] :
     c \in {d \in DOMAIN sockets : sockets[d].readyState = "OPEN"}}

\* res: the response is written if the socket is open, else dropped.
res(socket, payload) ==
  IF sockets[socket].readyState = "OPEN"
    THEN {[conn |-> socket, frame |-> payload, open |-> TRUE]}
    ELSE {}

\* A timer handle is a fresh object; a handle is named by the origin id it
\* was created for and a number no pending timeout of that origin bears.
FreshHandle(pending, originId) ==
  LET used == {t.handle : t \in {u \in pending : u.originId = originId}}
  IN CHOOSE h \in 1..(Cardinality(used) + 1) :
       h \notin used /\ \A g \in 1..(h - 1) : g \in used

\* extendSession without the clearTimeout.
extendSessionNoClear(st, originId) ==
  IF originId # ""
    THEN LET h == FreshHandle(st.timers, originId)
         IN [ monitors |-> [o \in DOMAIN st.monitors \cup {originId} |->
                              IF o = originId THEN h ELSE st.monitors[o]],
              timers |-> st.timers \cup {[handle |-> h, originId |-> originId]},
              cleared |-> {} ]
    ELSE [monitors |-> st.monitors, timers |-> st.timers, cleared |-> {}]

\* extendSession: clearTimeout of the origin's timer, then a new setTimeout.
extendSession(st, originId) ==
  IF originId # ""
    THEN LET cleared ==
               { t \in st.timers :
                   ~( /\ originId \in DOMAIN st.monitors
                      /\ t.originId = originId
                      /\ t.handle = st.monitors[originId] ) }
             h == FreshHandle(cleared, originId)
         IN [ monitors |-> [o \in DOMAIN st.monitors \cup {originId} |->
                              IF o = originId THEN h ELSE st.monitors[o]],
              timers |-> cleared \cup {[handle |-> h, originId |-> originId]},
              cleared |-> st.timers \ cleared ]
    ELSE [monitors |-> st.monitors, timers |-> st.timers, cleared |-> {}]

\* How far a handler got in one turn: `pc` is where it is suspended ("done"
\* when it returned), the other fields are the calls it made.
Outcome(pc, payload, origin, chainId) ==
  [ pc |-> pc, payload |-> payload, origin |-> origin, chainId |-> chainId,
    res |-> << >>, calls |-> << >>, extended |-> << >>,
    asked |-> FALSE, accounts |-> << >>, tray |-> FALSE ]

\* The refresh with the handshake flag ignored.
sessionRefreshAlways(rawPayload, payload) == <<payload.originId>>

\* The handler without the refresh.
sessionRefreshNever(rawPayload, payload) == << >>

\* The extendSession call of the handler: none for a message flagged
\* __extensionConnecting.
sessionRefresh(rawPayload, payload) ==
  IF ~rawPayload.extensionConnecting THEN <<payload.originId>> ELSE << >>

\* Every method taken as protected.
isProtectedAlways(method) == TRUE

\* protectedMethods.indexOf(payload.method) > -1
isProtected(method) == method \in protectedMethods

\* The handler with the refresh moved behind the fast paths and the trust
\* check, next to provider.send.
resolveAndDispatchRefreshLate(rawPayload, requestOrigin) ==
  LET origin == parseOrigin(requestOrigin)
      uo == updateOrigin(rawPayload, origin, rawPayload.extensionConnecting)
      payload == uo.payload
      chainId == uo.chainId
      done == Outcome("done", payload, origin, chainId)
      refreshed == sessionRefresh(rawPayload, payload)
  IN IF ~isHexString(chainId)
       THEN [done EXCEPT !.res =
               <<Error(rawPayload.id,
                       [ code |-> -1, text |-> "Invalid chain id", about |-> "",
                         chain |-> rawPayload.chainId ])>>]
     ELSE IF origin = "frame-extension" /\ rawPayload.method = "frame_summon"
       THEN [done EXCEPT !.tray = TRUE]
     ELSE IF origin = "frame-extension" /\ rawPayload.method = "eth_chainId"
       THEN [done EXCEPT !.res = <<Result(rawPayload.id, Str(chainId))>>]
     ELSE IF origin = "frame-extension" /\ rawPayload.method = "net_version"
       THEN [done EXCEPT !.res = <<Result(rawPayload.id, parseInt16(chainId))>>]
     ELSE IF isProtected(payload.method)
       THEN [Outcome("isTrusted", payload, origin, chainId) EXCEPT !.asked = TRUE]
     ELSE [Outcome("sent", payload, origin, chainId) EXCEPT
             !.extended = refreshed, !.calls = <<payload>>]

\* The message handler from parseOrigin to provider.send or the await of
\* isTrusted.
resolveAndDispatch(rawPayload, requestOrigin) ==
  LET origin == parseOrigin(requestOrigin)
      uo == updateOrigin(rawPayload, origin, rawPayload.extensionConnecting)
      payload == uo.payload
      chainId == uo.chainId
      done == Outcome("done", payload, origin, chainId)
      refreshed == sessionRefresh(rawPayload, payload)
  IN IF ~isHexString(chainId)
       THEN [done EXCEPT !.res =
               <<Error(rawPayload.id,
                       [ code |-> -1, text |-> "Invalid chain id", about |-> "",
                         chain |-> rawPayload.chainId ])>>]
     ELSE IF origin = "frame-extension" /\ rawPayload.method = "frame_summon"
       THEN [done EXCEPT !.extended = refreshed, !.tray = TRUE]
     ELSE IF origin = "frame-extension" /\ rawPayload.method = "eth_chainId"
       THEN [done EXCEPT !.extended = refreshed,
                         !.res = <<Result(rawPayload.id, Str(chainId))>>]
     ELSE IF origin = "frame-extension" /\ rawPayload.method = "net_version"
       THEN [done EXCEPT !.extended = refreshed,
                         !.res = <<Result(rawPayload.id, parseInt16(chainId))>>]
     ELSE IF isProtected(payload.method)
       THEN [Outcome("isTrusted", payload, origin, chainId) EXCEPT
               !.extended = refreshed, !.asked = TRUE]
     ELSE [Outcome("sent", payload, origin, chainId) EXCEPT
             !.extended = refreshed, !.calls = <<payload>>]

\* The handler with the result of isKnownExtension ignored.
afterKnownExtensionAny(socket, q, known) ==
  IF q.payload.frameOrigin # NoOrigin
    THEN resolveAndDispatch([q.payload EXCEPT !.frameOrigin = NoOrigin],
                            q.payload.frameOrigin)
    ELSE resolveAndDispatch(q.payload, SentinelOrigin)

\* The origin swap without the delete of __frameOrigin.
afterKnownExtensionKeepsField(socket, q, known) ==
  IF ~known
    THEN [Outcome("done", q.payload, "", NoStr) EXCEPT !.res =
            <<Error(q.payload.id,
                    [ code |-> 4001, text |-> "Permission denied, approve connection",
                      about |-> sockets[socket].frameExtension, chain |-> NoStr ])>>]
  ELSE IF q.payload.frameOrigin # NoOrigin
    THEN resolveAndDispatch(q.payload, q.payload.frameOrigin)
  ELSE resolveAndDispatch(q.payload, SentinelOrigin)

\* The handler after `await isKnownExtension(socket.frameExtension)`.
afterKnownExtension(socket, q, known) ==
  IF ~known
    THEN [Outcome("done", q.payload, "", NoStr) EXCEPT !.res =
            <<Error(q.payload.id,
                    [ code |-> 4001, text |-> "Permission denied, approve connection",
                      about |-> sockets[socket].frameExtension, chain |-> NoStr ])>>]
  ELSE IF q.payload.frameOrigin # NoOrigin
    THEN resolveAndDispatch([q.payload EXCEPT !.frameOrigin = NoOrigin],
                            q.payload.frameOrigin)
  ELSE resolveAndDispatch(q.payload, SentinelOrigin)

\* The handler with the result of isTrusted ignored.
afterTrustedAlways(q, trusted, selected) ==
  [Outcome("sent", q.payload, q.origin, q.payload.chainId) EXCEPT !.calls = <<q.payload>>]

\* The denial without the look at the selected account.
afterTrustedNoAccountCheck(q, trusted, selected) ==
  IF ~trusted
    THEN [Outcome("done", q.payload, q.origin, q.payload.chainId) EXCEPT
            !.res = <<Error(q.payload.id,
                            [ code |-> 4001, text |-> "Permission denied, approve",
                              about |-> q.origin, chain |-> NoStr ])>>]
    ELSE [Outcome("sent", q.payload, q.origin, q.payload.chainId) EXCEPT
            !.calls = <<q.payload>>]

\* The handler after `await isTrusted(payload)`: the denial, or provider.send.
afterTrusted(q, trusted, selected) ==
  IF ~trusted
    THEN [Outcome("done", q.payload, q.origin, q.payload.chainId) EXCEPT
            !.accounts = <<selected>>,
            !.res = <<Error(q.payload.id,
                            IF selected
                              THEN [ code |-> 4001, text |-> "Permission denied, approve",
                                     about |-> q.origin, chain |-> NoStr ]
                              ELSE [ code |-> 4001, text |-> "No account selected",
                                     about |-> "", chain |-> NoStr ])>>]
    ELSE [Outcome("sent", q.payload, q.origin, q.payload.chainId) EXCEPT
            !.calls = <<q.payload>>]

\* The callback with the test of response.result left out for unsubscribe.
onResponseAnyAnswer(q, response) ==
  IF q.payload.method = "eth_unsubscribe"
    THEN [s \in DOMAIN subs \ {q.payload.params[i] : i \in 1..Len(q.payload.params)}
            |-> subs[s]]
  ELSE IF response.kind = "result" /\ Truthy(response.result)
            /\ q.payload.method = "eth_subscribe"
    THEN [s \in DOMAIN subs \cup {response.result.s} |->
            IF s = response.result.s
              THEN [socket |-> q.conn, originId |-> q.payload.originId]
              ELSE subs[s]]
  ELSE subs

\* The callback registering the result of any method.
onResponseAnyMethod(q, response) ==
  IF response.kind = "result" /\ Truthy(response.result)
    THEN IF q.payload.method = "eth_unsubscribe"
           THEN [s \in DOMAIN subs \ {q.payload.params[i] : i \in 1..Len(q.payload.params)}
                   |-> subs[s]]
           ELSE [s \in DOMAIN subs \cup {response.result.s} |->
                   IF s = response.result.s
                     THEN [socket |-> q.conn, originId |-> q.payload.originId]
                     ELSE subs[s]]
    ELSE subs

\* The callback keeping the first owner of an id that is already registered.
onResponseKeepFirst(q, response) ==
  IF response.kind = "result" /\ Truthy(response.result)
    THEN IF q.payload.method = "eth_subscribe"
           THEN [s \in DOMAIN subs \cup {response.result.s} |->
                   IF s \in DOMAIN subs
                     THEN subs[s]
                     ELSE [socket |-> q.conn, originId |-> q.payload.originId]]
         ELSE IF q.payload.method = "eth_unsubscribe"
           THEN [s \in DOMAIN subs \ {q.payload.params[i] : i \in 1..Len(q.payload.params)}
                   |-> subs[s]]
         ELSE subs
    ELSE subs

\* The subscription table after the executor's callback for request q.
onResponse(q, response) ==
  IF response.kind = "result" /\ Truthy(response.result)
    THEN IF q.payload.method = "eth_subscribe"
           THEN [s \in DOMAIN subs \cup {response.result.s} |->
                   IF s = response.result.s
                     THEN [socket |-> q.conn, originId |-> q.payload.originId]
                     ELSE subs[s]]
         ELSE IF q.payload.method = "eth_unsubscribe"
           THEN [s \in DOMAIN subs \ {q.payload.params[i] : i \in 1..Len(q.payload.params)}
                   |-> subs[s]]
         ELSE subs
    ELSE subs

\* The close handler without the comparison of socket ids.
ownedByAny(socket) == DOMAIN subs

\* The ids the close handler of `socket` finds to be its own.
ownedBy(socket) == {s \in DOMAIN subs : subs[s].socket = socket}

\* The unsubscribe call tagged with the identity of the owner's own origin.
closeUnsubscribeSocketOrigin(sub) ==
  [ id |-> 1, method |-> "eth_unsubscribe", params |-> <<sub>>, chainId |-> NoStr,
    frameOrigin |-> NoOrigin, extensionConnecting |-> FALSE,
    originId |-> OriginId(parseOrigin(sockets[subs[sub].socket].origin)) ]

\* The payload of the unsubscribe call the close handler issues for `sub`.
closeUnsubscribe(sub) ==
  [ id |-> 1, method |-> "eth_unsubscribe", params |-> <<sub>>, chainId |-> NoStr,
    frameOrigin |-> NoOrigin, extensionConnecting |-> FALSE,
    originId |-> subs[sub].originId ]

\* The listener sending to every open socket.
routePushAll(sub) ==
  IF sub \in DOMAIN subs
    THEN {[conn |-> c, frame |-> PushFrame(sub), open |-> TRUE] :
            c \in {d \in Conns : sockets[d].readyState = "OPEN"}}
    ELSE {}

\* The listener falling back on every open socket for an id it does not know.
routePushUnknownToAll(sub) ==
  IF sub \in DOMAIN subs
    THEN {[ conn |-> subs[sub].socket, frame |-> PushFrame(sub),
            open |-> sockets[subs[sub].socket].readyState = "OPEN" ]}
    ELSE {[conn |-> c, frame |-> PushFrame(sub), open |-> TRUE] :
            c \in {d \in Conns : sockets[d].readyState = "OPEN"}}

\* The socket.send calls of the data:subscription listener.
routePush(sub) ==
  IF sub \in DOMAIN subs
    THEN {[ conn |-> subs[sub].socket, frame |-> PushFrame(sub),
            open |-> sockets[subs[sub].socket].readyState = "OPEN" ]}
    ELSE {}

\* The executor's possible answers to a forwarded request.
Responses(q) ==
  LET results ==
        CASE q.payload.method = "eth_subscribe" -> {Str(Sub1), Str(Sub2), Undefined}
          [] q.payload.method = "eth_unsubscribe" -> {Bool(TRUE), Bool(FALSE)}
          [] OTHER -> {Str(Chain0x1)}
  IN {Result(q.payload.id, v) : v \in results}
       \cup {Error(q.payload.id, [ code |-> -32000, text |-> "executor error",
                                   about |-> "", chain |-> NoStr ])}

Orders(S) == {o \in [1..Cardinality(S) -> S] : {o[i] : i \in DOMAIN o} = S}

\* ---------------------------------------------------------------- actions

InitWith(list) ==
  /\ sockets = [c \in Conns |-> [readyState |-> "NONE", origin |-> NoOrigin,
                                 frameExtension |-> NoExt]]
  /\ subs = << >>
  /\ connectionMonitors = << >>
  /\ timers = {}
  /\ inflight = EmptyBag
  /\ protectedMethods = list
  /\ ev = NoEv

Init == InitWith(AccountMethods)

\* What the executor's callback still reads of the payload it closed over.
Closure(pc, payload) ==
  IF pc = "sent"
    THEN [payload EXCEPT !.chainId = NoStr, !.frameOrigin = NoOrigin,
                         !.extensionConnecting = FALSE]
    ELSE payload

\* The state after a handler turn on `socket` that ended as `o`; `others` are
\* the handlers that stay suspended where they were.
Turn(op, socket, others, in, ret, response, o, table) ==
  LET st == [monitors |-> connectionMonitors, timers |-> timers]
      st2 == extendSession(st, IF o.extended = << >> THEN "" ELSE o.extended[1])
  IN /\ connectionMonitors' = st2.monitors
     /\ timers' = st2.timers
     /\ subs' = table
     /\ inflight' =
          IF o.pc = "done"
            THEN others
            ELSE others (+) SetToBag({[ conn |-> socket, pc |-> o.pc,
                                        payload |-> Closure(o.pc, o.payload),
                                        origin |-> o.origin ]})
     /\ ev' = [NoEv EXCEPT !.op = op, !.conn = socket, !.payload = in, !.ret = ret,
                 !.response = response,
                 !.origin = o.origin, !.chainId = o.chainId, !.res = o.res,
                 !.sends = UNION {res(socket, o.res[i]) : i \in 1..Len(o.res)},
                 !.calls = o.calls, !.extended = o.extended, !.asked = o.asked,
                 !.accounts = o.accounts, !.tray = o.tray,
                 !.cancelled = st2.cleared,
                 !.added = Entries(table) \ Entries(subs),
                 !.removed = Entries(subs) \ Entries(table)]

Without(q) == inflight (-) SetToBag({q})

\* ws.on('connection', handler)
Connect(c, h) ==
  /\ sockets[c].readyState = "NONE"
  /\ sockets' = [sockets EXCEPT ![c] = [readyState |-> "OPEN", origin |-> h.origin,
                                        frameExtension |-> h.frameExtension]]
  /\ ev' = [NoEv EXCEPT !.op = "connection", !.conn = c]
  /\ UNCHANGED <<subs, connectionMonitors, timers, inflight, protectedMethods>>

\* The handler closing the connection on a frame it could not parse.
InvalidMessageCloses(c) ==
  /\ sockets[c].readyState = "OPEN"
  /\ sockets' = [sockets EXCEPT ![c].readyState = "CLOSING"]
  /\ ev' = [NoEv EXCEPT !.op = "invalid", !.conn = c]
  /\ UNCHANGED <<subs, connectionMonitors, timers, inflight, protectedMethods>>

\* The handler answering a frame it could not parse.
InvalidMessageAnswered(c) ==
  /\ sockets[c].readyState = "OPEN"
  /\ ev' = [NoEv EXCEPT !.op = "invalid", !.conn = c,
               !.res = <<Error(0, [ code |-> -32700, text |-> "Parse error",
                                    about |-> "", chain |-> NoStr ])>>,
               !.sends = res(c, Error(0, [ code |-> -32700, text |-> "Parse error",
                                           about |-> "", chain |-> NoStr ]))]
  /\ UNCHANGED <<sockets, subs, connectionMonitors, timers, inflight, protectedMethods>>

\* socket.on('message') with data validPayload rejects.
InvalidMessage(c) ==
  /\ sockets[c].readyState = "OPEN"
  /\ ev' = [NoEv EXCEPT !.op = "invalid", !.conn = c]
  /\ UNCHANGED <<sockets, subs, connectionMonitors, timers, inflight, protectedMethods>>

\* The handler taking the __frameOrigin override on any connection.
MessageHonoursOverride(c, p) ==
  /\ sockets[c].readyState = "OPEN"
  /\ BagCardinality(inflight) < MaxInflight
  /\ IF sockets[c].frameExtension # NoExt
       THEN Turn("message", c, inflight, p, FALSE, NoFrame,
                 Outcome("isKnownExtension", p, "", NoStr), subs)
       ELSE Turn("message", c, inflight, p, FALSE, NoFrame,
                 resolveAndDispatch(p, IF p.frameOrigin # NoOrigin
                                         THEN p.frameOrigin
                                         ELSE sockets[c].origin), subs)
  /\ UNCHANGED <<sockets, protectedMethods>>

\* socket.on('message') up to its first await or its end.
Message(c, p) ==
  /\ sockets[c].readyState = "OPEN"
  /\ BagCardinality(inflight) < MaxInflight
  /\ IF sockets[c].frameExtension # NoExt
       THEN Turn("message", c, inflight, p, FALSE, NoFrame,
                 Outcome("isKnownExtension", p, "", NoStr), subs)
       ELSE Turn("message", c, inflight, p, FALSE, NoFrame,
                 resolveAndDispatch(p, sockets[c].origin), subs)
  /\ UNCHANGED <<sockets, protectedMethods>>

\* isKnownExtension resolves.
KnownExtension(q, known) ==
  /\ BagIn(q, inflight)
  /\ q.pc = "isKnownExtension"
  /\ Turn("isKnownExtension", q.conn, Without(q), q.payload, known, NoFrame,
          afterKnownExtension(q.conn, q, known), subs)
  /\ UNCHANGED <<sockets, protectedMethods>>

\* isTrusted resolves; getSelectedAddresses has a first entry or not.
Trusted(q, trusted, selected) ==
  /\ BagIn(q, inflight)
  /\ q.pc = "isTrusted"
  /\ Turn("isTrusted", q.conn, Without(q), q.payload, trusted, NoFrame,
          afterTrusted(q, trusted, selected), subs)
  /\ UNCHANGED <<sockets, protectedMethods>>

\* The executor calls back with its response.
Response(q, response) ==
  /\ BagIn(q, inflight)
  /\ q.pc = "sent"
  /\ response \in Responses(q)
  /\ Turn("response", q.conn, Without(q), q.payload, FALSE, response,
          [Outcome("done", q.payload, q.origin, NoStr) EXCEPT !.res = <<response>>],
          onResponse(q, response))
  /\ UNCHANGED <<sockets, protectedMethods>>

\* provider.on('data:subscription')
Push(sub) ==
  /\ ev' = [NoEv EXCEPT !.op = "push", !.response = PushFrame(sub), !.sends = routePush(sub)]
  /\ UNCHANGED <<sockets, subs, connectionMonitors, timers, inflight, protectedMethods>>

\* The peer starts the closing handshake: readyState CLOSING, no event yet.
Closing(c) ==
  /\ sockets[c].readyState = "OPEN"
  /\ sockets' = [sockets EXCEPT ![c].readyState = "CLOSING"]
  /\ ev' = [NoEv EXCEPT !.op = "closing", !.conn = c]
  /\ UNCHANGED <<subs, connectionMonitors, timers, inflight, protectedMethods>>

\* The error handler telling the client.
SocketErrorSurfaced(c) ==
  /\ sockets[c].readyState = "OPEN"
  /\ sockets' = [sockets EXCEPT ![c].readyState = "CLOSING"]
  /\ ev' = [NoEv EXCEPT !.op = "error", !.conn = c,
               !.sends = {[ conn |-> c, open |-> FALSE,
                            frame |-> Error(0, [ code |-> -32000, text |-> "transport error",
                                                 about |-> "", chain |-> NoStr ]) ]}]
  /\ UNCHANGED <<subs, connectionMonitors, timers, inflight, protectedMethods>>

\* socket.on('error'): ws sets readyState CLOSING and emits 'error'; the
\* handler logs.
SocketError(c) ==
  /\ sockets[c].readyState = "OPEN"
  /\ sockets' = [sockets EXCEPT ![c].readyState = "CLOSING"]
  /\ ev' = [NoEv EXCEPT !.op = "error", !.conn = c]
  /\ UNCHANGED <<subs, connectionMonitors, timers, inflight, protectedMethods>>

\* The close handler also dropping the pending idle timers.
CloseClearsTimers(c) ==
  /\ sockets[c].readyState \in {"OPEN", "CLOSING"}
  /\ sockets' = [sockets EXCEPT ![c].readyState = "CLOSED"]
  /\ subs' = [s \in DOMAIN subs \ ownedBy(c) |-> subs[s]]
  /\ timers' = {}
  /\ \E order \in Orders(ownedBy(c)) :
       ev' = [NoEv EXCEPT !.op = "close", !.conn = c,
                !.calls = [i \in DOMAIN order |-> closeUnsubscribe(order[i])],
                !.removed = Entries(subs) \ Entries(subs'),
                !.cancelled = timers]
  /\ UNCHANGED <<connectionMonitors, inflight, protectedMethods>>

\* socket.on('close')
Close(c) ==
  /\ sockets[c].readyState \in {"OPEN", "CLOSING"}
  /\ sockets' = [sockets EXCEPT ![c].readyState = "CLOSED"]
  /\ subs' = [s \in DOMAIN subs \ ownedBy(c) |-> subs[s]]
  /\ \E order \in Orders(ownedBy(c)) :
       ev' = [NoEv EXCEPT !.op = "close", !.conn = c,
                !.calls = [i \in DOMAIN order |-> closeUnsubscribe(order[i])],
                !.removed = Entries(subs) \ Entries(subs')]
  /\ UNCHANGED <<connectionMonitors, timers, inflight, protectedMethods>>

\* A pending timeout of extendSession fires.
Timeout(t) ==
  /\ t \in timers
  /\ timers' = timers \ {t}
  /\ ev' = [NoEv EXCEPT !.op = "timeout", !.ended = <<t.originId>>]
  /\ UNCHANGED <<sockets, subs, connectionMonitors, inflight, protectedMethods>>

\* The routing scenarios: both connections, subscribe and unsubscribe
\* requests in flight side by side, within one idle window.
Next ==
  \/ \E c \in Conns : \E h \in Handshakes(c) : Connect(c, h)
  \/ \E c \in Conns : \E p \in RouterPayloads(c) : Message(c, p)
  \/ \E q \in DOMAIN inflight, known \in BOOLEAN : KnownExtension(q, known)
  \/ \E q \in DOMAIN inflight : \E response \in Responses(q) : Response(q, response)
  \/ \E sub \in SubIds : Push(sub)
  \/ \E c \in Conns : Closing(c)
  \/ \E c \in Conns : Close(c)

Spec == Init /\ [][Next]_vars

\* The single-message scenarios: one connection, one request at a time, every
\* request field and every event.
Alone(c) == \A d \in Conns \ {c} : sockets[d].readyState = "NONE"

NextHandler ==
  \/ \E c \in Conns : \E h \in AllHandshakes(c) : Alone(c) /\ Connect(c, h)
  \/ \E c \in Conns : InvalidMessage(c)
  \/ \E c \in Conns : \E p \in HandlerPayloads : inflight = EmptyBag /\ Message(c, p)
  \/ \E q \in DOMAIN inflight, known \in BOOLEAN : KnownExtension(q, known)
  \/ \E q \in DOMAIN inflight, trusted \in BOOLEAN, selected \in BOOLEAN :
       Trusted(q, trusted, selected)
  \/ \E q \in DOMAIN inflight : \E response \in Responses(q) : Response(q, response)
  \/ \E c \in Conns : Closing(c)
  \/ \E c \in Conns : SocketError(c)
  \/ \E c \in Conns : Close(c)
  \/ \E t \in timers : Timeout(t)

SpecHandler == InitWith(GuardedMethods) /\ [][NextHandler]_vars

\* The idle-window scenarios: chain-id requests, flagged and not, with the
\* chain id given or left to the origin, on one connection at a time.
TimerPayloads ==
  PayloadsOf({1}, {"eth_chainId"}, {NoStr, ChainDec1}, {NoOrigin, WebOrigin}, BOOLEAN)

\* The origin ids extendSession can be called with.
OriginIds == {OriginId(o) : o \in {"dapp.one", "frame-extension", "abcdef", "Unknown"}}

NextTimer ==
  \/ \E c \in Conns : \E h \in AllHandshakes(c) : Alone(c) /\ Connect(c, h)
  \/ \E c \in Conns : \E p \in TimerPayloads : inflight = EmptyBag /\ Message(c, p)
  \/ \E q \in DOMAIN inflight, known \in BOOLEAN : KnownExtension(q, known)
  \/ \E q \in DOMAIN inflight : \E response \in Responses(q) : Response(q, response)
  \/ \E c \in Conns : Close(c)
  \/ \E t \in timers : Timeout(t)

\* The event loop runs a timeout that is due: a timer that stays pending
\* fires.
TimersFire ==
  \A o \in OriginIds : WF_vars(\E t \in timers : t.originId = o /\ Timeout(t))

SpecTimer == Init /\ [][NextTimer]_vars /\ TimersFire

\* ----------------------------------------------------------------- claims

\* A hex-prefixed string: 0x, then hex digits only.
HexPrefixed(v) ==
  /\ Len(v) >= 2
  /\ v[1] = "0"
  /\ v[2] = "x"
  /\ \A i \in 3..Len(v) : \E d \in 1..16 : HexDigits[d] = v[i] \/ HexUpper[d] = v[i]

\* The integer a hex-prefixed string with at least one digit denotes.
RECURSIVE HexValue(_, _)
HexValue(v, n) ==
  IF n < 3 THEN 0
  ELSE 16 * HexValue(v, n - 1)
         + (CHOOSE d \in 0..15 : HexDigits[d + 1] = v[n] \/ HexUpper[d + 1] = v[n])

UnsubscribeCallsFor(sub) ==
  { i \in 1..Len(ev.calls) :
      ev.calls[i].method = "eth_unsubscribe" /\ ev.calls[i].params = <<sub>> }

\* C1: when a connection closes, every entry it owns is removed, no entry of
\* another connection is, and the executor gets exactly one eth_unsubscribe
\* per removed id and no other call.
C1_CloseRemovesOwnedEntries ==
  ev.op = "close" =>
    /\ \A s \in DOMAIN subs : subs[s].socket # ev.conn
    /\ \A r \in ev.removed : r.socket = ev.conn
    /\ Len(ev.calls) = Cardinality(ev.removed)
    /\ \A r \in ev.removed : Cardinality(UnsubscribeCallsFor(r.sub)) = 1
    /\ \A i \in 1..Len(ev.calls) : ev.calls[i].method = "eth_unsubscribe"

\* C1 witness: a close removed an entry while the other connection keeps one.
C1_Witness ==
  /\ ev.op = "close"
  /\ ev.removed # {}
  /\ DOMAIN subs # {}

\* C2: a successful eth_subscribe registers its id under the requesting
\* connection, and a push for an id is sent to the connection that owns the
\* id and to no other.
C2_PushOnlyToOwner ==
  /\ ( /\ ev.op = "response"
       /\ ev.payload.method = "eth_subscribe"
       /\ ev.response.kind = "result"
       /\ Truthy(ev.response.result) )
       => /\ ev.response.result.s \in DOMAIN subs
          /\ subs[ev.response.result.s].socket = ev.conn
  /\ ev.op = "push" =>
       /\ Cardinality(ev.sends) <= 1
       /\ \A m \in ev.sends :
            /\ m.frame.sub \in DOMAIN subs
            /\ m.conn = subs[m.frame.sub].socket

\* C2 witness: a push was sent while both connections are open.
C2_Witness ==
  /\ ev.op = "push"
  /\ ev.sends # {}
  /\ \A c \in Conns : sockets[c].readyState = "OPEN"

SentTo(c, frame) == {[conn |-> c, frame |-> frame, open |-> TRUE]}

\* The handler's one answer is `frame`: it is handed to res, and written to
\* the request's connection when that is open and to no other.
Answered(frame) ==
  /\ ev.res = <<frame>>
  /\ ev.sends \subseteq SentTo(ev.conn, frame)
  /\ sockets[ev.conn].readyState = "OPEN" => ev.sends = SentTo(ev.conn, frame)

NotForwarded ==
  /\ ev.calls = << >>
  /\ \A q \in DOMAIN inflight : q.pc # "sent"

\* C3: a protected-method request that isTrusted refuses is answered with a
\* 4001 error and is not passed to the executor.
C3_UntrustedIsDenied ==
  (ev.op = "isTrusted" /\ ev.payload.method \in protectedMethods /\ ~ev.ret) =>
    /\ Len(ev.res) = 1
    /\ ev.res[1].kind = "error"
    /\ ev.res[1].error.code = 4001
    /\ ev.res[1].id = ev.payload.id
    /\ Answered(ev.res[1])
    /\ NotForwarded

\* C3 witness: a denial was written to an open connection.
C3_Witness ==
  /\ ev.op = "isTrusted"
  /\ ~ev.ret
  /\ ev.payload.method \in protectedMethods
  /\ ev.sends # {}

\* C4: every payload passed to the executor carries an origin identity and a
\* hex-prefixed chain id, the unsubscribe calls of the close handler included.
C4_ExecutorPayloadsCarryOriginAndChain ==
  \A i \in 1..Len(ev.calls) :
    /\ ev.calls[i].originId # ""
    /\ HexPrefixed(ev.calls[i].chainId)

IsUnsubscribeResponse == ev.op = "response" /\ ev.payload.method = "eth_unsubscribe"

ParamsOfRequest == {ev.payload.params[i] : i \in 1..Len(ev.payload.params)}

\* C5 as stated: once the executor has answered a forwarded eth_unsubscribe,
\* whatever the answer, no id of its parameter list is in the table.
C5_RemovedWhateverTheAnswer ==
  IsUnsubscribeResponse => \A s \in ParamsOfRequest : s \notin DOMAIN subs

\* C5 amended: the entries are removed when the executor answers with a truthy
\* result; forwarding removes nothing, and an error or a falsy result leaves
\* the table as it was.
C5_RemovedOnTruthyResult ==
  /\ (IsUnsubscribeResponse /\ ev.response.kind = "result" /\ Truthy(ev.response.result))
       => /\ \A s \in ParamsOfRequest : s \notin DOMAIN subs
          /\ \A r \in ev.removed : r.sub \in ParamsOfRequest
          /\ ev.added = {}
  /\ (IsUnsubscribeResponse /\ ~(ev.response.kind = "result" /\ Truthy(ev.response.result)))
       => ev.removed = {} /\ ev.added = {}
  /\ ev.op \in {"message", "isKnownExtension", "isTrusted"}
       => ev.removed = {} /\ ev.added = {}

\* C5 witness: a truthy answer to eth_unsubscribe removed an entry.
C5_Witness ==
  /\ IsUnsubscribeResponse
  /\ Truthy(ev.response.result)
  /\ ev.removed # {}

\* C6: a push is sent only to a socket that is open; for a socket that is
\* closing or closed no send is attempted.
C6_PushOnlyToOpenSocket ==
  ev.op = "push" => \A m \in ev.sends : sockets[m.conn].readyState = "OPEN"

\* C7: no identity has two pending idle timers, and after extendSession the
\* identity's one pending timer is the one connectionMonitors holds.
C7_OneTimerPerIdentity ==
  /\ \A t1 \in timers : \A t2 \in timers : t1.originId = t2.originId => t1 = t2
  /\ \A i \in 1..Len(ev.extended) :
       /\ ev.extended[i] \in DOMAIN connectionMonitors
       /\ [handle |-> connectionMonitors[ev.extended[i]], originId |-> ev.extended[i]]
            \in timers

\* C7 witness: an extendSession within the idle window cancelled the pending
\* timer and left one.
C7_Witness ==
  /\ ev.extended # << >>
  /\ ev.cancelled # {}
  /\ Cardinality({t \in timers : t.originId = ev.extended[1]}) = 1

\* C8: a message on a connection whose extension is unknown is answered with
\* a 4001 error naming the extension id; no identity is resolved, no timer is
\* touched, isTrusted is not asked and the executor is not called.
C8_UnknownExtensionIsDenied ==
  (ev.op = "isKnownExtension" /\ ~ev.ret) =>
    /\ Len(ev.res) = 1
    /\ ev.res[1].kind = "error"
    /\ ev.res[1].error.code = 4001
    /\ ev.res[1].error.about = sockets[ev.conn].frameExtension
    /\ ev.res[1].id = ev.payload.id
    /\ Answered(ev.res[1])
    /\ ev.origin = ""
    /\ ev.extended = << >>
    /\ ev.cancelled = {}
    /\ ~ev.asked
    /\ \A q \in DOMAIN inflight : q.pc # "isTrusted"
    /\ NotForwarded

\* C8 witness: the denial was written to the open extension connection.
C8_Witness ==
  /\ ev.op = "isKnownExtension"
  /\ ~ev.ret
  /\ ev.sends # {}
  /\ sockets[ev.conn].frameExtension # NoExt

\* The turn resolved an identity and a chain id.
Resolved == ev.op \in {"message", "isKnownExtension"} /\ ev.origin # ""

\* C9: a message whose resolved chain id is not hex-prefixed is answered with
\* a -1 error; no timer is touched, the executor is not called and the
\* subscription table is unchanged.
C9_InvalidChainIdIsRejected ==
  (Resolved /\ ~HexPrefixed(ev.chainId)) =>
    /\ Len(ev.res) = 1
    /\ ev.res[1].kind = "error"
    /\ ev.res[1].error.code = -1
    /\ ev.res[1].id = ev.payload.id
    /\ Answered(ev.res[1])
    /\ ev.extended = << >>
    /\ ev.cancelled = {}
    /\ ~ev.asked
    /\ ~ev.tray
    /\ NotForwarded
    /\ inflight = EmptyBag
    /\ ev.added = {}
    /\ ev.removed = {}

\* C9 witness: the -1 error was written for a request with chain id "1".
C9_Witness ==
  /\ Resolved
  /\ ev.payload.chainId = ChainDec1
  /\ ev.sends # {}

C11_UnknownPushIsDropped ==
  [][ (ev'.op = "push" /\ ev'.response.sub \notin DOMAIN subs) =>
        /\ ev'.sends = {}
        /\ ev'.res = << >>
        /\ ev'.calls = << >>
        /\ UNCHANGED <<sockets, subs, connectionMonitors, timers, inflight>> ]_vars

\* C11 witness: a push for an unknown id was dropped while another id is
\* registered to an open connection.
C11_Witness ==
  /\ ev.op = "push"
  /\ ev.response.sub \notin DOMAIN subs
  /\ ev.sends = {}
  /\ \E s \in DOMAIN subs : sockets[subs[s].socket].readyState = "OPEN"

\* C12: a close leaves the requests pending at the executor pending and calls
\* the executor only to unsubscribe the ids the closing connection owned; the
\* response to a request whose connection is no longer open is handed to res
\* and written to no connection.
C12_ResponseAfterCloseIsDropped ==
  [][ /\ ev'.op = "close" =>
           /\ inflight' = inflight
           /\ \A i \in 1..Len(ev'.calls) :
                /\ ev'.calls[i].method = "eth_unsubscribe"
                /\ Len(ev'.calls[i].params) = 1
                /\ ev'.calls[i].params[1] \in DOMAIN subs
                /\ subs[ev'.calls[i].params[1]].socket = ev'.conn
      /\ (ev'.op = "response" /\ sockets[ev'.conn].readyState # "OPEN") =>
           /\ ev'.res = <<ev'.response>>
           /\ ev'.sends = {}
           /\ ev'.calls = << >> ]_vars

\* C12 witness: the response to a request arrived after its connection had
\* closed.
C12_Witness ==
  /\ ev.op = "response"
  /\ sockets[ev.conn].readyState = "CLOSED"
  /\ ev.res # << >>
  /\ ev.sends = {}

\* The turn in which a parsed message gets past the extension check or is
\* stopped by it: the message turn on a connection without an extension
\* descriptor, the turn after isKnownExtension on one with it.
Decides ==
  \/ ev.op = "message" /\ sockets[ev.conn].frameExtension = NoExt
  \/ ev.op = "isKnownExtension"

\* The turn resolved an identity, found the chain id hex-prefixed, and the
\* message is not flagged as an extension-connecting handshake.
Accepted ==
  /\ Resolved
  /\ HexPrefixed(ev.chainId)
  /\ ~ev.payload.extensionConnecting

\* C13 as stated: every parsed message that is not flagged as a handshake
\* refreshes the session timer once, whatever becomes of the message.
C13_RefreshedOncePerParsedMessage ==
  (Decides /\ ~ev.payload.extensionConnecting) => Len(ev.extended) = 1

\* C13 amended: extendSession is called once, with the message's identity,
\* in the turn that resolved the identity of a message that is not flagged
\* and whose chain id is hex-prefixed, whether the message then takes a fast
\* path, waits for isTrusted or is forwarded; it is called in no other turn,
\* so not for a message of an unknown extension or with an invalid chain id.
C13_RefreshedOncePerAcceptedMessage ==
  /\ Accepted => ev.extended = <<OriginId(ev.origin)>>
  /\ ~Accepted => ev.extended = << >> /\ ev.cancelled = {}

\* C13 witness: a refresh replaced the pending timer of a request that now
\* waits for isTrusted.
C13_Witness ==
  /\ Accepted
  /\ ev.asked
  /\ ev.cancelled # {}
  /\ ev.extended = <<OriginId(ev.origin)>>

\* C14: no turn of a message flagged as an extension-connecting handshake
\* calls extendSession, cancels a timer or changes the timer tables, and
\* neither does the executor's callback for any message.
C14_HandshakeLeavesTimersAlone ==
  [][ ( \/ /\ ev'.op \in {"message", "isKnownExtension", "isTrusted"}
           /\ ev'.payload.extensionConnecting
        \/ ev'.op = "response" ) =>
        /\ ev'.extended = << >>
        /\ ev'.cancelled = {}
        /\ timers' = timers
        /\ connectionMonitors' = connectionMonitors ]_vars

\* C14 witness: a flagged message with a valid chain id was handled while the
\* idle timer of its identity was pending.
C14_Witness ==
  /\ Resolved
  /\ ev.payload.extensionConnecting
  /\ HexPrefixed(ev.chainId)
  /\ \E t \in timers : t.originId = OriginId(ev.origin)

\* C15: a timeout that fires is the one connectionMonitors holds for its
\* identity (never one a later extendSession replaced), it calls endSession
\* for that identity and leaves no timer of the identity pending, so that
\* endSession is not called again without a new refresh; and a pending timer
\* of an identity leads to endSession for the identity unless the identity is
\* refreshed again.
C15_IdleSessionEndsOnce ==
  /\ [][ ev'.op = "timeout" =>
           \E t \in timers :
             /\ ev'.ended = <<t.originId>>
             /\ t.originId \in DOMAIN connectionMonitors
             /\ connectionMonitors[t.originId] = t.handle
             /\ timers' = timers \ {t}
             /\ \A u \in timers' : u.originId # t.originId ]_vars
  /\ \A o \in OriginIds :
       (\E t \in timers : t.originId = o)
         ~> (ev.ended = <<o>> \/ ev.extended = <<o>>)

\* C15 witness: the idle timer of an identity fired after its connection had
\* closed, and no timer is pending.
C15_Witness ==
  /\ ev.op = "timeout"
  /\ Len(ev.ended) = 1
  /\ ev.ended[1] \in DOMAIN connectionMonitors
  /\ timers = {}
  /\ \E c \in Conns : sockets[c].readyState = "CLOSED"

\* C16: every frame a handler turn writes for a request - from the message
\* turn, the turns after isKnownExtension and isTrusted, and the executor's
\* callback - is a response frame with the request's id written to the
\* connection the request arrived on, and is written there when that
\* connection is open.
C16_ResponsesGoToRequester ==
  ev.op \in {"message", "isKnownExtension", "isTrusted", "response"} =>
    /\ \A m \in ev.sends :
         /\ m.conn = ev.conn
         /\ m.frame.kind \in {"result", "error"}
         /\ m.frame.id = ev.payload.id
         /\ \E i \in 1..Len(ev.res) : ev.res[i] = m.frame
    /\ sockets[ev.conn].readyState = "OPEN" =>
         \A i \in 1..Len(ev.res) : SentTo(ev.conn, ev.res[i]) \subseteq ev.sends

\* C16 witness: the executor's answer was written to its requester while the
\* other connection, open, has a request with the same id pending at the
\* executor.
C16_Witness ==
  /\ ev.op = "response"
  /\ ev.sends # {}
  /\ \E q \in DOMAIN inflight :
       /\ q.conn # ev.conn
       /\ q.pc = "sent"
       /\ q.payload.id = ev.payload.id
       /\ sockets[q.conn].readyState = "OPEN"

\* The request is one the handler answers itself under the sentinel identity.
FastPath ==
  /\ ev.origin = "frame-extension"
  /\ ev.payload.method \in {"frame_summon", "eth_chainId", "net_version"}

\* C17: isTrusted is asked only for a request whose method is protected; a
\* request with another method that resolved an identity and a hex-prefixed
\* chain id and is not a fast path is passed to the executor in that same
\* turn, with its id, method, identity and chain id, and isTrusted is not
\* asked.
C17_TrustGateOnlyForProtected ==
  /\ ev.asked => ev.payload.method \in protectedMethods
  /\ \A q \in DOMAIN inflight : q.pc = "isTrusted" => q.payload.method \in protectedMethods
  /\ ev.op = "isTrusted" => ev.payload.method \in protectedMethods
  /\ ( /\ Resolved
       /\ HexPrefixed(ev.chainId)
       /\ ev.payload.method \notin protectedMethods
       /\ ~FastPath ) =>
       /\ ~ev.asked
       /\ ev.res = << >>
       /\ Len(ev.calls) = 1
       /\ ev.calls[1].id = ev.payload.id
       /\ ev.calls[1].method = ev.payload.method
       /\ ev.calls[1].params = ev.payload.params
       /\ ev.calls[1].originId = OriginId(ev.origin)
       /\ ev.calls[1].chainId = ev.chainId
       /\ \E q \in DOMAIN inflight :
            q.pc = "sent" /\ q.conn = ev.conn /\ q.payload.id = ev.payload.id

\* C17 witness: an eth_unsubscribe request, not protected, went to the
\* executor from the extension's connection under a page's identity.
C17_Witness ==
  /\ Resolved
  /\ ev.op = "isKnownExtension"
  /\ ev.origin = "dapp.one"
  /\ ev.payload.method = "eth_unsubscribe"
  /\ ev.payload.method \notin protectedMethods
  /\ Len(ev.calls) = 1

\* C18: a frame validPayload rejects is dropped: no response is produced or
\* written, no identity is resolved, no timer is set or cancelled, isTrusted
\* and the executor are not called, no state changes, and the connection is
\* still open and takes the next frame.
C18_InvalidFrameIsDropped ==
  /\ [][ ev'.op = "invalid" =>
           /\ ev'.res = << >>
           /\ ev'.sends = {}
           /\ ev'.calls = << >>
           /\ ev'.origin = ""
           /\ ev'.extended = << >>
           /\ ev'.cancelled = {}
           /\ ~ev'.asked
           /\ UNCHANGED <<sockets, subs, connectionMonitors, timers, inflight>>
           /\ sockets'[ev'.conn].readyState = "OPEN" ]_vars
  /\ [](ev.op = "invalid" => ENABLED (\E p \in HandlerPayloads : Message(ev.conn, p)))

\* C18 witness: a frame was dropped on a connection that has a timer pending
\* and a request waiting for the executor.
C18_Witness ==
  /\ ev.op = "invalid"
  /\ sockets[ev.conn].readyState = "OPEN"
  /\ timers # {}
  /\ \E q \in DOMAIN inflight : q.conn = ev.conn /\ q.pc = "sent"

\* isTrusted refused the request.
Denied == ev.op = "isTrusted" /\ ~ev.ret

\* C19: a trust denial is answered with code 4001 and the request's id; the
\* handler asks getSelectedAddresses once, and the message names the origin
\* when there is a selected address and is the no-account message when there
\* is none; getSelectedAddresses is asked in no other turn.
C19_DenialMessageVariants ==
  /\ Denied =>
       /\ Len(ev.accounts) = 1
       /\ Len(ev.res) = 1
       /\ ev.res[1].kind = "error"
       /\ ev.res[1].id = ev.payload.id
       /\ ev.res[1].error.code = 4001
       /\ ev.accounts[1] =>
            /\ ev.res[1].error.text = "Permission denied, approve"
            /\ ev.res[1].error.about = ev.origin
            /\ ev.origin # ""
       /\ ~ev.accounts[1] =>
            /\ ev.res[1].error.text = "No account selected"
            /\ ev.res[1].error.about = ""
  /\ ~Denied => ev.accounts = << >>

\* C19 witness: a denial with no account selected was written to the
\* connection.
C19_Witness ==
  /\ Denied
  /\ ev.accounts = <<FALSE>>
  /\ ev.sends # {}
  /\ \A m \in ev.sends : m.frame.error.text = "No account selected"

\* C20: no entry of the subscription table is owned by a connection that has
\* closed.
C20_NoEntryOfClosedConnection ==
  \A s \in DOMAIN subs : sockets[subs[s].socket].readyState # "CLOSED"

\* C21: the executor's answer to an eth_unsubscribe request removes only
\* entries owned by the connection the request arrived on; an entry of
\* another connection stays.
C21_UnsubscribeRemovesOwnEntriesOnly ==
  IsUnsubscribeResponse => \A r \in ev.removed : r.socket = ev.conn

\* C22 as stated: the error event of a connection removes the entries the
\* connection owns.
C22_ErrorTriggersCleanup ==
  ev.op = "error" => \A s \in DOMAIN subs : subs[s].socket # ev.conn

\* C22 amended: the error handler sends nothing to any client, calls nothing
\* and changes neither table: the entries of the connection stay; the
\* cleanup is the close handler's, which removes the entries of a connection
\* that an error has put into CLOSING exactly as it does for any other, with
\* one unsubscribe call for each.
C22_CleanupWaitsForClose ==
  [][ /\ ev'.op = "error" =>
           /\ ev'.sends = {}
           /\ ev'.res = << >>
           /\ ev'.calls = << >>
           /\ sockets[ev'.conn].readyState = "OPEN"
           /\ sockets'[ev'.conn].readyState = "CLOSING"
           /\ UNCHANGED <<subs, connectionMonitors, timers, inflight>>
      /\ (ev'.op = "close" /\ sockets[ev'.conn].readyState = "CLOSING") =>
           /\ \A s \in DOMAIN subs :
                subs[s].socket = ev'.conn <=> s \notin DOMAIN subs'
           /\ Len(ev'.calls) = Cardinality({s \in DOMAIN subs : subs[s].socket = ev'.conn})
           /\ \A s \in DOMAIN subs :
                subs[s].socket = ev'.conn =>
                  \E i \in 1..Len(ev'.calls) :
                    /\ ev'.calls[i].method = "eth_unsubscribe"
                    /\ ev'.calls[i].params = <<s>>
           /\ ev'.sends = {} ]_vars

\* C22 witness: an error occurred on a connection that owns an entry, and the
\* entry is still in the table.
C22_Witness ==
  /\ ev.op = "error"
  /\ sockets[ev.conn].readyState = "CLOSING"
  /\ \E s \in DOMAIN subs : subs[s].socket = ev.conn

\* C23: a successful eth_subscribe stores the identity attached to its
\* request in the entry, and each unsubscribe call of the close handler
\* names one removed id and carries the identity stored in that id's entry.
C23_CloseUnsubscribeCarriesEntryIdentity ==
  [][ /\ ( /\ ev'.op = "response"
           /\ ev'.payload.method = "eth_subscribe"
           /\ ev'.response.kind = "result"
           /\ Truthy(ev'.response.result) ) =>
           /\ ev'.response.result.s \in DOMAIN subs'
           /\ subs'[ev'.response.result.s].originId = ev'.payload.originId
           /\ ev'.payload.originId = OriginId(ev'.origin)
      /\ ev'.op = "close" =>
           \A i \in 1..Len(ev'.calls) :
             /\ Len(ev'.calls[i].params) = 1
             /\ ev'.calls[i].params[1] \in DOMAIN subs
             /\ ev'.calls[i].originId = subs[ev'.calls[i].params[1]].originId ]_vars

\* C23 witness: the close of the extension's connection issued two
\* unsubscribe calls under two identities, neither the identity of the
\* connection's own origin.
C23_Witness ==
  /\ ev.op = "close"
  /\ Len(ev.calls) = 2
  /\ ev.calls[1].originId # ev.calls[2].originId
  /\ \A i \in 1..2 :
       ev.calls[i].originId # OriginId(parseOrigin(sockets[ev.conn].origin))

\* C24: the close of a connection leaves every entry of another connection in
\* the table as it was and names none of them in an unsubscribe call, leaves
\* the timer tables, the other sockets and the suspended handlers as they
\* were; at any time a push for an entry whose owner is open is sent to that
\* owner, and the executor's answer to a request of an open connection is
\* written to it.
C24_CloseLeavesOthersAlone ==
  /\ [][ ev'.op = "close" =>
           /\ \A s \in DOMAIN subs :
                subs[s].socket # ev'.conn =>
                  /\ s \in DOMAIN subs'
                  /\ subs'[s] = subs[s]
                  /\ \A i \in 1..Len(ev'.calls) : ev'.calls[i].params # <<s>>
           /\ timers' = timers
           /\ connectionMonitors' = connectionMonitors
           /\ ev'.cancelled = {}
           /\ inflight' = inflight
           /\ \A d \in Conns \ {ev'.conn} : sockets'[d] = sockets[d] ]_vars
  /\ []( /\ ( /\ ev.op = "push"
              /\ ev.response.sub \in DOMAIN subs
              /\ sockets[subs[ev.response.sub].socket].readyState = "OPEN" ) =>
              ev.sends = {[ conn |-> subs[ev.response.sub].socket, frame |-> ev.response,
                            open |-> TRUE ]}
         /\ (ev.op = "response" /\ sockets[ev.conn].readyState = "OPEN") =>
              ev.sends = SentTo(ev.conn, ev.response) )

\* C24 witness: after a connection has closed, a push reached the other
\* connection, which kept its entry, with an idle timer pending.
C24_Witness ==
  /\ ev.op = "push"
  /\ ev.sends # {}
  /\ timers # {}
  /\ \E c \in Conns : sockets[c].readyState = "CLOSED"
  /\ \A m \in ev.sends : sockets[m.conn].readyState = "OPEN"

\* The executor answered an eth_subscribe request with an id that was
\* registered already (in the state before the callback).
Reregistered ==
  /\ ev.op = "response"
  /\ ev.payload.method = "eth_subscribe"
  /\ ev.response.kind = "result"
  /\ Truthy(ev.response.result)
  /\ \E r \in ev.removed : r.sub = ev.response.result.s

\* C25: the table holds one entry per subscription id; when the executor
\* answers an eth_subscribe request with an id that is registered, the entry
\* becomes the connection and identity of that request and the older entry is
\* gone; a push for an id is sent to the entry's present owner alone.
C25_NewerRegistrationOverwrites ==
  /\ [](\A e1 \in Entries(subs) : \A e2 \in Entries(subs) : e1.sub = e2.sub => e1 = e2)
  /\ [][ ( /\ ev'.op = "response"
           /\ ev'.payload.method = "eth_subscribe"
           /\ ev'.response.kind = "result"
           /\ Truthy(ev'.response.result)
           /\ ev'.response.result.s \in DOMAIN subs ) =>
           /\ subs' = [s \in DOMAIN subs |->
                         IF s = ev'.response.result.s
                           THEN [socket |-> ev'.conn, originId |-> ev'.payload.originId]
                           ELSE subs[s]]
           /\ ev'.removed \subseteq
                {[ sub |-> ev'.response.result.s,
                   socket |-> subs[ev'.response.result.s].socket,
                   originId |-> subs[ev'.response.result.s].originId ]} ]_vars
  /\ [](ev.op = "push" =>
          \A m \in ev.sends :
            /\ m.frame.sub \in DOMAIN subs
            /\ {n.conn : n \in ev.sends} = {subs[m.frame.sub].socket})

\* C25 witness: an id owned by one connection was registered again by a
\* request of the other, which owns it now.
C25_Witness ==
  /\ Reregistered
  /\ \E r \in ev.removed : r.socket # ev.conn
  /\ subs[ev.response.result.s].socket = ev.conn

\* C26: an entry appears in the table only in the executor's callback for an
\* eth_subscribe request whose response has a result, under the id the result
\* names and for the request's connection; a callback with an error, with no
\* result or for another method adds none, and no other turn does.
C26_EntryAddedOnlyBySubscribeResult ==
  /\ ev.added # {} =>
       /\ ev.op = "response"
       /\ ev.payload.method = "eth_subscribe"
       /\ ev.response.kind = "result"
       /\ ev.response.result # Undefined
       /\ \A a \in ev.added : a.sub = ev.response.result.s /\ a.socket = ev.conn
  /\ ( /\ ev.op = "response"
       /\ \/ ev.response.kind = "error"
          \/ ev.response.result = Undefined
          \/ ev.payload.method # "eth_subscribe" ) =>
       ev.added = {}

\* C26 witness: the answer to an eth_subscribe request that had to pass the
\* trust check added the entry of the id it names.
C26_Witness ==
  /\ ev.op = "response"
  /\ ev.payload.method = "eth_subscribe"
  /\ ev.payload.method \in protectedMethods
  /\ ev.added = {[ sub |-> ev.response.result.s, socket |-> ev.conn,
                   originId |-> ev.payload.originId ]}

\* The turn ended a message with a per-message error: an unparseable frame,
\* an unknown extension, an invalid chain id or a trust denial.
ErrorOutcome(e) ==
  \/ e.op = "invalid"
  \/ e.op = "isKnownExtension" /\ ~e.ret
  \/ e.op \in {"message", "isKnownExtension"} /\ e.origin # "" /\ ~HexPrefixed(e.chainId)
  \/ e.op = "isTrusted" /\ ~e.ret

\* C27: a turn that ends a message with a per-message error changes no
\* socket's state and no entry of the subscription table, and a connection
\* that is open after it takes the next message.
C27_ErrorsLeaveConnectionOpen ==
  /\ [][ ErrorOutcome(ev') =>
           /\ sockets' = sockets
           /\ subs' = subs
           /\ ev'.removed = {}
           /\ ev'.calls = << >> ]_vars
  /\ []( (ErrorOutcome(ev) /\ sockets[ev.conn].readyState = "OPEN") =>
           ENABLED (\E p \in HandlerPayloads : Message(ev.conn, p)) )

\* C27 witness: a trust denial on an open connection that keeps the entry it
\* owns.
C27_Witness ==
  /\ ErrorOutcome(ev)
  /\ ev.op = "isTrusted"
  /\ sockets[ev.conn].readyState = "OPEN"
  /\ \E s \in DOMAIN subs : subs[s].socket = ev.conn

\* C28: the turn that answers a fast path or asks isTrusted for a message
\* that is not flagged has called extendSession for the message's identity,
\* whose timer is then pending; the turn of a later trust denial does not
\* touch the timer tables, so the refresh stands.
C28_RefreshPrecedesFastPathsAndTrust ==
  /\ []( (Accepted /\ (ev.asked \/ FastPath)) =>
           /\ ev.extended = <<OriginId(ev.origin)>>
           /\ OriginId(ev.origin) \in DOMAIN connectionMonitors
           /\ [ handle |-> connectionMonitors[OriginId(ev.origin)],
                originId |-> OriginId(ev.origin) ] \in timers )
  /\ [][ (ev'.op = "isTrusted" /\ ~ev'.ret) =>
           /\ timers' = timers
           /\ connectionMonitors' = connectionMonitors
           /\ ev'.cancelled = {} ]_vars

\* C28 witness: a request that is not flagged was denied by the trust gate
\* while the timer of its identity, set when the request came in, is pending.
C28_Witness ==
  /\ Denied
  /\ ~ev.payload.extensionConnecting
  /\ ev.payload.originId \in DOMAIN connectionMonitors
  /\ [ handle |-> connectionMonitors[ev.payload.originId],
       originId |-> ev.payload.originId ] \in timers

\* The identity of the origin a connection declared.
DeclaredOrigin(c) == parseOrigin(sockets[c].origin)

\* C29: on a connection without an extension descriptor the identity of a
\* message is that of the origin the connection declared, whatever the
\* message's __frameOrigin field holds: it is the identity the handler
\* resolves, refreshes, asks isTrusted about and passes to the executor.
C29_WebIdentityIgnoresOverride ==
  (ev.op = "message" /\ sockets[ev.conn].frameExtension = NoExt) =>
    /\ ev.origin = DeclaredOrigin(ev.conn)
    /\ \A i \in 1..Len(ev.extended) : ev.extended[i] = OriginId(DeclaredOrigin(ev.conn))
    /\ \A i \in 1..Len(ev.calls) : ev.calls[i].originId = OriginId(DeclaredOrigin(ev.conn))
    /\ \A q \in DOMAIN inflight :
         q.conn = ev.conn =>
           /\ q.origin = DeclaredOrigin(ev.conn)
           /\ q.payload.originId = OriginId(DeclaredOrigin(ev.conn))

\* C29 witness: a message whose __frameOrigin names another origin than the
\* connection's was forwarded under the connection's identity.
C29_Witness ==
  /\ ev.op = "message"
  /\ sockets[ev.conn].frameExtension = NoExt
  /\ ev.payload.frameOrigin # NoOrigin
  /\ parseOrigin(ev.payload.frameOrigin) # DeclaredOrigin(ev.conn)
  /\ Len(ev.calls) = 1
  /\ ev.calls[1].originId = OriginId(DeclaredOrigin(ev.conn))

TookFastPath ==
  /\ ev.op \in {"message", "isKnownExtension"}
  /\ ev.tray \/ \E i \in 1..Len(ev.res) : ev.res[i].kind = "result"
  /\ ~ev.asked
  /\ ev.calls = << >>

\* C31: a sentinel fast path is taken only for a message on a connection with
\* an extension descriptor that supplied no __frameOrigin; never on a
\* connection without the descriptor.
C31_FastPathsOnlyForExtensionSentinel ==
  TookFastPath =>
    /\ sockets[ev.conn].frameExtension # NoExt
    /\ ev.payload.frameOrigin = NoOrigin

====
